---- MODULE Spec2Model ----
(***************************************************************************)
(* Model of src/app.py: a Streamlit page that uploads an audit-report PDF, *)
(* extracts its text, asks a generative model for a structured record      *)
(* (single call or chunked), saves the record to MongoDB and searches the  *)
(* stored records.                                                         *)
(*                                                                         *)
(* The Korean field names of the source are romanised:                     *)
(*   gamsayeondo = 감사연도, pigamgigwan = 피감기관,                          *)
(*   gamsagyeolgwa = 감사결과, geonmyeong = 건명, cheobun = 처분,             *)
(*   gwallyeongyujeong = 관련규정, jijeoksahang = 지적사항.                   *)
(***************************************************************************)
EXTENDS Integers, Sequences, FiniteSets, TLC

VARIABLES
    extracted_text,   \* st.session_state["extracted_text"]: "None" or the id of a PDF
    structured_json,  \* st.session_state["structured_json"]: None or a record
    db,               \* counter_collection: the stored documents, in insertion order
    search_query,     \* the search text input (a character sequence)
    shown,            \* what the search block rendered in the last script run
    pc,               \* "idle", or "chunk" while the chunked handler's loop runs
    parts,            \* chunked handler: list(chunk_text(focused, ...))
    idx,              \* chunked handler: index of the next part
    all_items,        \* chunked handler: findings accumulated so far
    calls,            \* generate_content calls issued by the last handler step
    stages,           \* single-call handler: fallback stages attempted, in order
    outcome,          \* how the last handler run ended
    last_resp,        \* the response the last single-call run got for its first request
    yielded,          \* chunked handler: what each processed part contributed
    source_of,        \* the PDF whose text the held structured record was extracted from
    handler,          \* which handler the last script run executed
    f_text,           \* text cleaner harness: input text
    f_out             \* text cleaner harness: [done, text]: filter_relevant(f_text) once called

vars == <<extracted_text, structured_json, db, search_query, shown, pc, parts, idx,
          all_items, calls, stages, outcome, last_resp, yielded, source_of, handler,
          f_text, f_out>>

(***************************************************************************)
(* Bounds of the model.                                                    *)
(***************************************************************************)
MaxDocs == 2

MaxStored == 2

MaxLines == 3

(***************************************************************************)
(* Text.  A text is a sequence of characters; a character is [c, n]: the   *)
(* character c repeated n times (n > 1 only for the filler letter "x",     *)
(* which occurs in no keyword and no pattern), so that texts longer than   *)
(* one chunk stay small.                                                   *)
(***************************************************************************)
Ch(c) == [c |-> c, n |-> 1]

Fill(n) == [c |-> "x", n |-> n]

Str(s) == [i \in DOMAIN s |-> Ch(s[i])]

RECURSIVE TextLen(_)
TextLen(s) == IF s = <<>> THEN 0 ELSE Head(s).n + TextLen(Tail(s))

LineBreaks == {"\n", "\r", "\f"}

RECURSIVE SplitFrom(_, _, _, _)
SplitFrom(s, i, cur, acc) ==
    IF i > Len(s)
    THEN IF cur # <<>> THEN Append(acc, cur) ELSE acc
    ELSE IF s[i].c \in LineBreaks
         THEN LET skip == IF s[i].c = "\r" /\ i < Len(s) /\ s[i + 1].c = "\n" THEN 2 ELSE 1
              IN  SplitFrom(s, i + skip, <<>>, Append(acc, cur))
         ELSE SplitFrom(s, i + 1, Append(cur, s[i]), acc)

\* str.splitlines()
SplitLines(s) == SplitFrom(s, 1, <<>>, <<>>)

RECURSIVE JoinLines(_)
\* "\n".join(lines)
JoinLines(lines) ==
    IF lines = <<>> THEN <<>>
    ELSE IF Len(lines) = 1 THEN lines[1]
    ELSE lines[1] \o <<Ch("\n")>> \o JoinLines(Tail(lines))

\* k in ln, for a keyword k given as a sequence of plain characters
Contains(ln, k) ==
    \E i \in 0..(Len(ln) - Len(k)) :
        \A j \in 1..Len(k) : ln[i + j].c = k[j]

\* The disposition keywords of filter_relevant:
\* 시정, 주의, 기타, 회수, 추징, 추급, 환급, 징계, 훈계, 관련규정
keys ==
    << <<"si", "jeong">>, <<"ju", "ui">>, <<"gi", "ta">>, <<"hoe", "su">>,
       <<"chu", "jing">>, <<"chu", "geup">>, <<"hwan", "geup">>, <<"jing", "gye">>,
       <<"hun", "gye">>, <<"gwan", "ryeon", "gyu", "jeong">> >>

Digits == {"0", "1", "2", "3", "4", "5", "6", "7", "8", "9"}

\* any(k in ln for k in keys)
HasKey(ln) == \E q \in DOMAIN keys : Contains(ln, keys[q])

\* a run of at least five characters ch
HasRun5(ln, ch) ==
    \E i \in 0..(Len(ln) - 5) : \A j \in 1..5 : ln[i + j].c = ch

\* re.search(r"\d{2,}/\d{2,}|-{5,}|={5,}", ln)
MatchesDrop(ln) ==
    \/ \E i \in 0..(Len(ln) - 5) :
          /\ ln[i + 1].c \in Digits /\ ln[i + 2].c \in Digits
          /\ ln[i + 3].c = "/"
          /\ ln[i + 4].c \in Digits /\ ln[i + 5].c \in Digits
    \/ HasRun5(ln, "-")
    \/ HasRun5(ln, "=")

MaxPicked == 6000

\* IsKeyLine that keeps every line
IsKeyLine_any(ln) == TRUE

IsKeyLine(ln) == HasKey(ln)

IsCleanLine(ln) == ~MatchesDrop(ln)

Truncate(s, n) == IF Len(s) <= n THEN s ELSE SubSeq(s, 1, n)

filter_relevant(text) ==
    LET lines == SplitLines(text)
        picked1 == SelectSeq(lines, IsKeyLine)
        picked == SelectSeq(picked1, IsCleanLine)
    IN  JoinLines(Truncate(picked, MaxPicked))

RECURSIVE ChunkFrom(_, _, _, _)
ChunkFrom(i, n, size, overlap) ==
    IF i < n
    THEN <<[start |-> i, stop |-> IF i + size < n THEN i + size ELSE n]>>
             \o ChunkFrom(i + size - overlap, n, size, overlap)
    ELSE <<>>

\* chunk_text: the windows s[i:i+size], each given by its bounds
chunk_text(s, size, overlap) == ChunkFrom(0, TextLen(s), size, overlap)

ChunkSize == 3000

ChunkOverlap == 150

(***************************************************************************)
(* Records.  A finding's four fields are character sequences.              *)
(***************************************************************************)
None == [none |-> TRUE]

\* class AuditResult
AuditResult(a, b, c, d) ==
    [geonmyeong |-> a, cheobun |-> b, gwallyeongyujeong |-> c, jijeoksahang |-> d]

\* class ResearchPaperExtraction
ResearchPaperExtraction(year, agency, results) ==
    [gamsayeondo |-> year, pigamgigwan |-> agency, gamsagyeolgwa |-> results]

\* class ChunkExtraction
ChunkExtraction(results) == [gamsagyeolgwa |-> results]

F1 == AuditResult(<<"A", "b">>, <<"c">>, <<"r", "1">>, <<"d">>)

F2 == AuditResult(<<"x", "a">>, <<"b", "z">>, <<"r", "2">>, <<"a", "q", "c">>)

F3 == AuditResult(<<"t">>, <<"c">>, <<"r", "3">>, <<"d">>)

(***************************************************************************)
(* The text of a model response, as a sequence of tokens: white space, a   *)
(* ``` fence, the word json, prose, the braces of the top-level object,    *)
(* one token per member of that object ("kv": key k; ok says whether the   *)
(* value has the type the schema asks for; s is a string value, r a list   *)
(* of findings), a JSON array, and the literal null.                       *)
(***************************************************************************)
Tok(t) == [t |-> t, k |-> "", ok |-> TRUE, s |-> "", r |-> <<>>]

KV(k, ok, s, r) == [t |-> "kv", k |-> k, ok |-> ok, s |-> s, r |-> r]

RECURSIVE LStrip(_)
LStrip(s) == IF s # <<>> /\ Head(s).t = "ws" THEN LStrip(Tail(s)) ELSE s

RECURSIVE RStrip(_)
RStrip(s) ==
    IF s # <<>> /\ s[Len(s)].t = "ws" THEN RStrip(SubSeq(s, 1, Len(s) - 1)) ELSE s

\* str.strip()
Strip(s) == RStrip(LStrip(s))

\* re.sub(r"^```(?:json)?", "", s)
DropLeadingFence(s) ==
    IF s # <<>> /\ s[1].t = "fence"
    THEN IF Len(s) >= 2 /\ s[2].t = "json" THEN SubSeq(s, 3, Len(s)) ELSE Tail(s)
    ELSE s

\* re.sub(r"```$", "", s)
DropTrailingFence(s) ==
    IF s # <<>> /\ s[Len(s)].t = "fence" THEN SubSeq(s, 1, Len(s) - 1) ELSE s

\* s.find(t): the first position of a token of type t, 0 when there is none (-1 in Python)
Find(s, t) ==
    IF \E i \in DOMAIN s : s[i].t = t
    THEN CHOOSE i \in DOMAIN s : s[i].t = t /\ \A j \in 1..(i - 1) : s[j].t # t
    ELSE 0

\* s.rfind(t)
RFind(s, t) ==
    IF \E i \in DOMAIN s : s[i].t = t
    THEN CHOOSE i \in DOMAIN s : s[i].t = t /\ \A j \in (i + 1)..Len(s) : s[j].t # t
    ELSE 0

coerce_json_from_text(raw) ==
    LET s1 == Strip(raw)
        s2 == Strip(DropLeadingFence(s1))
        s3 == Strip(DropTrailingFence(s2))
        start == Find(s3, "{")
        end == RFind(s3, "}")
    IN  IF start # 0 /\ end # 0 /\ end > start THEN SubSeq(s3, start, end) ELSE s3

(***************************************************************************)
(* Parsing and validation.  A call that may raise returns [exc, val]: exc  *)
(* is "" or the name of the exception class.                               *)
(***************************************************************************)
Ok(v) == [exc |-> "", val |-> v]

Raise(e) == [exc |-> e, val |-> None]

Members(s) == SelectSeq(s, LAMBDA x : x.t # "ws")

\* json.loads: the parsed value, a dict (its members in order), a list or null
json_loads(text) ==
    LET s == Members(text)
    IN  IF Len(s) >= 2 /\ s[1].t = "{" /\ s[Len(s)].t = "}"
           /\ \A i \in 2..(Len(s) - 1) : s[i].t = "kv"
        THEN Ok([kind |-> "dict", m |-> SubSeq(s, 2, Len(s) - 1)])
        ELSE IF Len(s) = 1 /\ s[1].t = "arr" THEN Ok([kind |-> "list", m |-> <<>>])
        ELSE IF Len(s) = 1 /\ s[1].t = "null" THEN Ok([kind |-> "null", m |-> <<>>])
        ELSE Raise("JSONDecodeError")

\* key in data, for a dict
HasKeyIn(data, k) == \E i \in DOMAIN data.m : data.m[i].k = k

\* data[k]: the member with key k (the last one, as Python keeps the last duplicate)
Member(data, k) ==
    data.m[CHOOSE i \in DOMAIN data.m :
               data.m[i].k = k /\ \A j \in (i + 1)..Len(data.m) : data.m[j].k # k]

\* data.get(k, default), as a member
GetOr(data, k, s, r) == IF HasKeyIn(data, k) THEN Member(data, k) ELSE KV(k, TRUE, s, r)

FieldOk(data, k) == HasKeyIn(data, k) /\ Member(data, k).ok

\* ResearchPaperExtraction(**data) for a dict data: pydantic's validation
ValidateReport(data) ==
    IF FieldOk(data, "gamsayeondo") /\ FieldOk(data, "pigamgigwan")
       /\ FieldOk(data, "gamsagyeolgwa")
    THEN Ok(ResearchPaperExtraction(Member(data, "gamsayeondo").s,
                                    Member(data, "pigamgigwan").s,
                                    Member(data, "gamsagyeolgwa").r))
    ELSE Raise("ValidationError")

\* ChunkExtraction(**data) for a dict data
ValidateChunk(data) ==
    IF FieldOk(data, "gamsagyeolgwa")
    THEN Ok(ChunkExtraction(Member(data, "gamsagyeolgwa").r))
    ELSE Raise("ValidationError")

Validate(schema, data) ==
    IF schema = "ResearchPaperExtraction" THEN ValidateReport(data) ELSE ValidateChunk(data)

\* schema.model_validate_json(text): invalid JSON and non-objects are ValidationErrors
model_validate_json(schema, text) ==
    LET j == json_loads(text)
    IN  IF j.exc # "" \/ j.val.kind # "dict" THEN Raise("ValidationError")
        ELSE Validate(schema, j.val)

(***************************************************************************)
(* The model API.  A response has a candidate count, the finish reason of  *)
(* its first candidate, possibly a pre-parsed result, and a text (reading  *)
(* the text of a response without candidates raises ValueError).           *)
(* generate_content either returns a response or raises with a message.    *)
(***************************************************************************)
Resp(cands, fr, has_parsed, text) ==
    [candidates |-> cands, finish_reason |-> fr, has_parsed |-> has_parsed, text |-> text]

Returns(resp) == [raises |-> "", resp |-> resp]

NoResp == Resp(0, 0, FALSE, <<>>)

Raises(msg) == [raises |-> msg, resp |-> NoResp]

BlockedReason == 2

is_safety_blocked(resp) == resp.candidates > 0 /\ resp.finish_reason = BlockedReason

\* resp.text
TextOf(resp) == IF resp.candidates = 0 THEN Raise("ValueError") ELSE Ok(resp.text)

\* getattr(resp, "parsed", None): the SDK's own parse of the text, when it offers one
ParsedOf(resp) ==
    IF resp.has_parsed /\ resp.candidates > 0
    THEN LET v == model_validate_json("ResearchPaperExtraction", resp.text)
         IN  IF v.exc = "" THEN v.val ELSE None
    ELSE None

\* "Quota exceeded" in msg or "rate limit" in msg.lower()
IsQuotaMessage(msg) == msg \in {"Quota exceeded", "Rate limit"}

\* What generate_content did on one call
Answer(o) ==
    IF o.raises # "" THEN "raised"
    ELSE IF is_safety_blocked(o.resp) THEN "blocked"
    ELSE "answered"

\* A generate_content call: its prompt, the safety settings it was made with
\* ("default" or "relaxed", SAFETY_RELAXED), and what came back
Call(prompt, safety, o) == [prompt |-> prompt, safety |-> safety, answer |-> Answer(o)]

\* What a request returns: exc ("" or the exception raised), the response,
\* and the generate_content calls it issued.
Result(exc, resp, cs) == [exc |-> exc, resp |-> resp, calls |-> cs]

\* PlainRetry with the plain call itself retried once when it raises
PlainRetry_twice(prompt, menu, cs) ==
    UNION { IF o3.raises # ""
            THEN { IF o4.raises # ""
                   THEN Result("ApiError", NoResp,
                               cs \o <<Call(prompt, "default", o3), Call(prompt, "default", o4)>>)
                   ELSE Result("", o4.resp,
                               cs \o <<Call(prompt, "default", o3), Call(prompt, "default", o4)>>)
                   : o4 \in menu }
            ELSE {Result("", o3.resp, Append(cs, Call(prompt, "default", o3)))} : o3 \in menu }

\* The fallback of the relaxed retry (line 108): a plain generate_content call
PlainRetry(prompt, menu, cs) ==
    { IF o3.raises # ""
      THEN Result("ApiError", NoResp, Append(cs, Call(prompt, "default", o3)))
      ELSE Result("", o3.resp, Append(cs, Call(prompt, "default", o3))) : o3 \in menu }

\* The retry of a safety-blocked request (lines 105-108)
RelaxedRetry(prompt, menu, cs) ==
    UNION { IF o2.raises # ""
            THEN PlainRetry(prompt, menu, Append(cs, Call(prompt, "relaxed", o2)))
            ELSE {Result("", o2.resp, Append(cs, Call(prompt, "relaxed", o2)))} : o2 \in menu }

\* call_with_optional_safety: every result the request can have when
\* generate_content answers from `menu`
call_with_optional_safety(prompt, menu) ==
    UNION { LET cs == <<Call(prompt, "default", o1)>>
            IN  IF o1.raises # ""
                THEN IF IsQuotaMessage(o1.raises)
                     THEN {Result("StopException", NoResp, cs)}
                     ELSE {Result("ApiError", NoResp, cs)}
                ELSE IF is_safety_blocked(o1.resp)
                     THEN RelaxedRetry(prompt, menu, cs)
                     ELSE {Result("", o1.resp, cs)} : o1 \in menu }

(***************************************************************************)
(* Sample answers of the model.                                            *)
(***************************************************************************)
Year == KV("gamsayeondo", TRUE, "2023", <<>>)

Agency == KV("pigamgigwan", TRUE, "G", <<>>)

Results(r) == KV("gamsagyeolgwa", TRUE, "", r)

BadResults == KV("gamsagyeolgwa", FALSE, "", <<>>)

T_valid == <<Tok("{"), Year, Agency, Results(<<F1, F2>>), Tok("}")>>

T_fenced ==
    <<Tok("fence"), Tok("json"), Tok("ws"), Tok("{"), Year, Agency, Results(<<F1>>),
      Tok("}"), Tok("ws"), Tok("fence")>>

T_items == <<Tok("{"), Results(<<F2>>), Tok("}")>>

T_prose_items == <<Tok("prose"), Tok("{"), Results(<<F3>>), Tok("}"), Tok("ws")>>

T_badschema == <<Tok("{"), Year, Agency, BadResults, Tok("}")>>

T_truncated == <<Tok("{"), Year, Agency>>

T_array == <<Tok("arr")>>

FullMenu ==
    { Returns(Resp(1, 1, FALSE, T_valid)),
      Returns(Resp(1, 1, TRUE, T_valid)),
      Returns(Resp(1, 1, FALSE, T_fenced)),
      Returns(Resp(1, 1, FALSE, T_items)),
      Returns(Resp(1, 1, FALSE, T_prose_items)),
      Returns(Resp(1, 1, FALSE, T_badschema)),
      Returns(Resp(1, 1, FALSE, T_truncated)),
      Returns(Resp(1, 1, FALSE, T_array)),
      Returns(Resp(1, BlockedReason, FALSE, <<>>)),
      Returns(NoResp),
      Raises("Quota exceeded"),
      Raises("unavailable") }

ChunkMenu ==
    { Returns(Resp(1, 1, FALSE, T_valid)),
      Returns(Resp(1, 1, FALSE, T_items)),
      Returns(Resp(1, 1, FALSE, T_badschema)),
      Returns(Resp(1, 1, FALSE, T_truncated)),
      Returns(Resp(1, BlockedReason, FALSE, <<>>)),
      Raises("unavailable") }

BasicMenu ==
    { Returns(Resp(1, 1, FALSE, T_valid)),
      Returns(Resp(1, BlockedReason, FALSE, <<>>)),
      Raises("unavailable") }

(***************************************************************************)
(* Uploaded PDFs, by id, and the text extract_text returns for each.       *)
(***************************************************************************)
DocIds == {"A", "B", "E", "N"}

\* extract_text_from_doc
extract_text_from_doc(d) ==
    CASE d = "A" -> Str(<<"1", ".", "\n", "si", "jeong", "a", "\n", "-", "-", "-", "-", "-">>)
      [] d = "B" -> Str(<<"ju", "ui">>) \o <<Fill(2900)>> \o Str(<<"\f", "p", "\n", "gi", "ta">>)
                        \o <<Fill(2000)>>
      [] d = "N" -> Str(<<"p", "q", "\n", "1", "2", "/", "3", "4">>)
      [] OTHER -> <<>>

\* the truthiness of st.session_state.get("extracted_text")
HasText(t) == t # "None" /\ extract_text_from_doc(t) # <<>>

(***************************************************************************)
(* Exceptions.  st.stop() raises a script-control exception that is not an *)
(* Exception, so `except Exception` lets it through and the script run     *)
(* ends; everything else raised here is an Exception.                      *)
(***************************************************************************)
ExceptionClasses ==
    {"ApiError", "ValidationError", "JSONDecodeError", "ValueError", "AttributeError",
     "TypeError", "PyMongoError"}

\* CaughtByOuter with an outer handler that catches JSON errors only
CaughtByOuter_json_only(exc) == exc = "JSONDecodeError"

\* except Exception (lines 196, 270)
CaughtByOuter(exc) == exc \in ExceptionClasses

\* except json.JSONDecodeError (lines 166, 236)
CaughtForRepair(exc) == exc = "JSONDecodeError"

\* How a handler run ends: "ok", "error" (st.error in the outer except),
\* "stopped" (st.error, then st.stop()), or "unhandled"
OutcomeOf(exc) ==
    IF exc = "" THEN "ok"
    ELSE IF exc = "StopException" THEN "stopped"
    ELSE IF CaughtByOuter(exc) THEN "error"
    ELSE "unhandled"

(***************************************************************************)
(* The single-call handler (lines 135-197).                                *)
(***************************************************************************)
Run(exc, structured, st, repair) ==
    [exc |-> exc, structured |-> structured, stages |-> st, repair |-> repair]

\* lines 184-188: the else branch of the json.loads try
CoerceData(data, st) ==
    IF data.kind = "list" THEN Run("AttributeError", None, st, FALSE)
    ELSE IF data.kind = "null" THEN Run("TypeError", None, st, FALSE)
    ELSE LET filled ==
                 IF ~HasKeyIn(data, "gamsayeondo") \/ ~HasKeyIn(data, "pigamgigwan")
                 THEN [kind |-> "dict",
                       m |-> <<GetOr(data, "gamsayeondo", "", <<>>),
                               GetOr(data, "pigamgigwan", "", <<>>),
                               GetOr(data, "gamsagyeolgwa", "", <<>>)>>]
                 ELSE data
             v == ValidateReport(filled)
         IN  Run(v.exc, v.val, st, FALSE)

\* lines 163-188: the except branch of the direct validation
CoerceStage(resp, st) ==
    LET t == TextOf(resp)
    IN  IF t.exc # "" THEN Run(t.exc, None, st, FALSE)
        ELSE LET j == json_loads(coerce_json_from_text(t.val))
             IN  IF j.exc # ""
                 THEN IF CaughtForRepair(j.exc) THEN Run("", None, st, TRUE)
                      ELSE Run(j.exc, None, st, FALSE)
                 ELSE CoerceData(j.val, st)

\* DirectValidate with a validation that rejects every text
DirectValidate_rejecting(schema, resp) ==
    LET t == TextOf(resp)
    IN  IF t.exc # "" THEN t ELSE Raise("ValidationError")

\* lines 160-162
DirectValidate(schema, resp) ==
    LET t == TextOf(resp)
    IN  IF t.exc # "" THEN t ELSE model_validate_json(schema, t.val)

\* lines 152-188 up to the repair request: repair says the chain asks for it
SingleChain(resp) ==
    IF is_safety_blocked(resp) THEN Run("StopException", None, <<>>, FALSE)
    ELSE IF ParsedOf(resp) # None THEN Run("", ParsedOf(resp), <<"parsed">>, FALSE)
    ELSE LET v == DirectValidate("ResearchPaperExtraction", resp)
         IN  IF v.exc = "" THEN Run("", v.val, <<"parsed", "validate">>, FALSE)
             ELSE CoerceStage(resp, <<"parsed", "validate", "coerce">>)

\* lines 178-182: what the handler does with the repair request's result
RepairStage(schema, r2, st) ==
    IF r2.exc # "" THEN Run(r2.exc, None, st, FALSE)
    ELSE IF is_safety_blocked(r2.resp) THEN Run("StopException", None, st, FALSE)
    ELSE LET v == DirectValidate(schema, r2.resp)
         IN  Run(v.exc, v.val, st, FALSE)

(***************************************************************************)
(* One part of the chunked handler (lines 221-252).                        *)
(***************************************************************************)
Part(exc, status, items) == [exc |-> exc, status |-> status, items |-> items]

\* lines 232-235: inside the json.loads try
ChunkData(data) ==
    IF data.kind = "null" THEN Part("TypeError", "failed", <<>>)
    ELSE IF data.kind = "list" \/ ~HasKeyIn(data, "gamsagyeolgwa") THEN Part("", "ok", <<>>)
    ELSE LET v == ValidateChunk(data)
         IN  IF v.exc = "" THEN Part("", "ok", v.val.gamsagyeolgwa)
             ELSE Part(v.exc, "failed", <<>>)

\* lines 223-236 up to the repair request: status "repair" asks for it
ChunkChain(resp) ==
    IF is_safety_blocked(resp) THEN Part("", "skipped", <<>>)
    ELSE LET v == DirectValidate("ChunkExtraction", resp)
         IN  IF v.exc = "" THEN Part("", "ok", v.val.gamsagyeolgwa)
             ELSE LET t == TextOf(resp)
                  IN  IF t.exc # "" THEN Part(t.exc, "failed", <<>>)
                      ELSE LET j == json_loads(coerce_json_from_text(t.val))
                           IN  IF j.exc # ""
                               THEN IF CaughtForRepair(j.exc) THEN Part("", "repair", <<>>)
                                    ELSE Part(j.exc, "failed", <<>>)
                               ELSE ChunkData(j.val)

\* lines 246-250
ChunkRepair(r2) ==
    IF r2.exc # "" THEN Part(r2.exc, "failed", <<>>)
    ELSE IF is_safety_blocked(r2.resp) THEN Part("", "skipped", <<>>)
    ELSE LET v == DirectValidate("ChunkExtraction", r2.resp)
         IN  IF v.exc = "" THEN Part("", "ok", v.val.gamsagyeolgwa)
             ELSE Part(v.exc, "failed", <<>>)

\* Extend that skips the findings already collected
Extend_dedup(items, more) ==
    items \o SelectSeq(more, LAMBDA a : \A i \in DOMAIN items : items[i] # a)

\* all_items.extend(chunk_struct.감사결과)
Extend(items, more) == items \o more

(***************************************************************************)
(* The store (lines 273-279) and the search block (lines 293-334).         *)
(***************************************************************************)
\* structured.model_dump(): the record as a plain document
model_dump(rec) ==
    [gamsayeondo |-> rec.gamsayeondo, pigamgigwan |-> rec.pigamgigwan,
     gamsagyeolgwa |-> rec.gamsagyeolgwa]

\* insert_one as an upsert: a document with the same content is not added again
insert_one_upsert(coll, doc) ==
    IF \E i \in DOMAIN coll :
          /\ coll[i].gamsayeondo = doc.gamsayeondo
          /\ coll[i].pigamgigwan = doc.pigamgigwan
          /\ coll[i].gamsagyeolgwa = doc.gamsagyeolgwa
    THEN coll
    ELSE Append(coll, [id |-> Len(coll) + 1, gamsayeondo |-> doc.gamsayeondo,
                       pigamgigwan |-> doc.pigamgigwan, gamsagyeolgwa |-> doc.gamsagyeolgwa])

\* counter_collection.insert_one(doc): appends doc under a fresh _id
insert_one(coll, doc) ==
    Append(coll, [id |-> Len(coll) + 1, gamsayeondo |-> doc.gamsayeondo,
                  pigamgigwan |-> doc.pigamgigwan, gamsagyeolgwa |-> doc.gamsagyeolgwa])

UpperCase == <<"A", "B", "C", "Q", "R", "T", "X", "Z">>

LowerCase == <<"a", "b", "c", "q", "r", "t", "x", "z">>

\* str.lower(), one character
Lower(c) ==
    IF \E i \in DOMAIN UpperCase : UpperCase[i] = c
    THEN LowerCase[CHOOSE i \in DOMAIN UpperCase : UpperCase[i] = c]
    ELSE c

\* a.lower() in b.lower()
ContainsLower(b, a) ==
    \E i \in 0..(Len(b) - Len(a)) : \A j \in 1..Len(a) : Lower(b[i + j]) = Lower(a[j])

\* {"$regex": q, "$options": "i"} on one field: a case-insensitive regex
\* search, where "." matches any character
RegexSearch(field, q) ==
    \E i \in 0..(Len(field) - Len(q)) :
        \A j \in 1..Len(q) : q[j] = "." \/ Lower(field[i + j]) = Lower(q[j])

\* whether the server accepts q as a regex: an unclosed group is an error
ValidRegex(q) == \A j \in DOMAIN q : q[j] # "("

\* the $or of the four per-field regex conditions
ElemMatch(audit, q) ==
    \/ RegexSearch(audit.geonmyeong, q)
    \/ RegexSearch(audit.cheobun, q)
    \/ RegexSearch(audit.gwallyeongyujeong, q)
    \/ RegexSearch(audit.jijeoksahang, q)

\* the query of lines 297-308, on one stored document
QueryMatches(doc, q) ==
    \E i \in DOMAIN doc.gamsagyeolgwa : ElemMatch(doc.gamsagyeolgwa[i], q)

\* counter_collection.find(query)
find(coll, q) == SelectSeq(coll, LAMBDA doc : QueryMatches(doc, q))

\* lines 317-322
Blob(audit) ==
    audit.geonmyeong \o audit.cheobun \o audit.gwallyeongyujeong \o audit.jijeoksahang

\* line 323
ShowsAudit(audit, q) == ContainsLower(Blob(audit), q)

\* lines 312-328: each returned document with the findings written under it
RenderDoc(doc, q) ==
    [id |-> doc.id, audits |-> SelectSeq(doc.gamsagyeolgwa, LAMBDA a : ShowsAudit(a, q))]

Shown(status, docs) == [status |-> status, docs |-> docs]

\* lines 295-334: what the search block renders
SearchBlock(coll, q) ==
    IF q = <<>> THEN Shown("warning", <<>>)
    ELSE IF ~ValidRegex(q) THEN Shown("error", <<>>)
    ELSE LET result_list == find(coll, q)
         IN  IF result_list # <<>>
             THEN Shown("results", [i \in DOMAIN result_list |-> RenderDoc(result_list[i], q)])
             ELSE Shown("info", <<>>)

\* a script run ended by st.stop() never reaches the search block
Halted == Shown("halted", <<>>)

Queries ==
    { <<>>, <<"a", "b">>, <<"r", "1">>, <<"a", ".", "c">>, <<"z", "z">>, <<"(">> }

(***************************************************************************)
(* The script.  Every user interaction reruns the script once; an action   *)
(* is one such run.  The chunked handler's loop is split at its            *)
(* iterations, and nothing else runs while pc = "chunk" (the script is     *)
(* single-threaded).                                                       *)
(***************************************************************************)
session == <<extracted_text, structured_json, source_of>>

loop == <<parts, idx, all_items>>

harness == <<f_text, f_out>>

Init ==
    /\ extracted_text = "None"
    /\ structured_json = None
    /\ db = <<>>
    /\ search_query = <<>>
    /\ shown = SearchBlock(<<>>, <<>>)
    /\ pc = "idle"
    /\ parts = <<>>
    /\ idx = 0
    /\ all_items = <<>>
    /\ calls = <<>>
    /\ stages = <<>>
    /\ outcome = "none"
    /\ last_resp = NoResp
    /\ yielded = <<>>
    /\ source_of = "None"
    /\ handler = "none"
    /\ f_text = <<>>
    /\ f_out = [done |-> FALSE, text |-> <<>>]

\* a script run in which no extraction handler runs
NoHandler(name, result) ==
    /\ handler' = name
    /\ outcome' = result
    /\ calls' = <<>>
    /\ stages' = <<>>
    /\ last_resp' = NoResp
    /\ yielded' = <<>>

\* what the rest of the script renders after a handler that ended with `result`
AfterHandler(result, coll, q) ==
    IF result \in {"stopped", "unhandled"} THEN Halted ELSE SearchBlock(coll, q)

\* lines 123-128: a PDF is chosen in the uploader
Upload(d) ==
    /\ pc = "idle"
    /\ extracted_text' = d
    /\ shown' = SearchBlock(db, search_query)
    /\ NoHandler("none", "none")
    /\ UNCHANGED <<structured_json, source_of, db, search_query, pc, loop, harness>>

\* lines 190-197: the end of the single-call handler
SingleFinish(r1, run, cs) ==
    /\ structured_json' = IF run.exc = "" THEN run.structured ELSE structured_json
    /\ source_of' = IF run.exc = "" THEN extracted_text ELSE source_of
    /\ handler' = "single"
    /\ outcome' = OutcomeOf(run.exc)
    /\ stages' = run.stages
    /\ calls' = cs
    /\ last_resp' = r1.resp
    /\ yielded' = <<>>
    /\ shown' = AfterHandler(OutcomeOf(run.exc), db, search_query)
    /\ UNCHANGED <<extracted_text, db, search_query, pc, loop, harness>>

\* lines 135-197: the single-call button
ExtractSingle(menu) ==
    /\ pc = "idle"
    /\ HasText(extracted_text)
    /\ \E r1 \in call_with_optional_safety("extract", menu) :
          LET c1 == IF r1.exc # "" THEN Run(r1.exc, None, <<>>, FALSE)
                    ELSE SingleChain(r1.resp)
          IN  IF c1.repair
              THEN \E r2 \in call_with_optional_safety("repair", menu) :
                      SingleFinish(r1,
                                   RepairStage("ResearchPaperExtraction", r2,
                                               Append(c1.stages, "repair")),
                                   r1.calls \o r2.calls)
              ELSE SingleFinish(r1, c1, r1.calls)

\* lines 199-210: the chunked button, up to the loop
ChunkBegin ==
    /\ pc = "idle"
    /\ HasText(extracted_text)
    /\ parts' = chunk_text(filter_relevant(extract_text_from_doc(extracted_text)),
                           ChunkSize, ChunkOverlap)
    /\ idx' = 1
    /\ all_items' = <<>>
    /\ pc' = "chunk"
    /\ NoHandler("chunk", "running")
    /\ UNCHANGED <<session, db, search_query, shown, harness>>

\* the end of one iteration of the loop: an exception leaves the loop for the
\* outer except (line 270), anything else goes on to the next part
PartDone(p, cs) ==
    /\ calls' = cs
    /\ yielded' = Append(yielded, [status |-> p.status, items |-> p.items])
    /\ IF p.exc # ""
       THEN /\ pc' = "idle"
            /\ outcome' = OutcomeOf(p.exc)
            /\ parts' = <<>>
            /\ idx' = 0
            /\ all_items' = <<>>
            /\ shown' = AfterHandler(OutcomeOf(p.exc), db, search_query)
       ELSE /\ all_items' = IF p.status = "ok" THEN Extend(all_items, p.items) ELSE all_items
            /\ idx' = idx + 1
            /\ UNCHANGED <<pc, outcome, parts, shown>>
    /\ UNCHANGED <<session, db, search_query, stages, last_resp, handler, harness>>

\* lines 212-252: one iteration of the loop
ChunkStep(menu) ==
    /\ pc = "chunk"
    /\ idx <= Len(parts)
    /\ \E r1 \in call_with_optional_safety("chunk", menu) :
          LET p1 == IF r1.exc # "" THEN Part(r1.exc, "failed", <<>>) ELSE ChunkChain(r1.resp)
          IN  IF p1.status = "repair"
              THEN \E r2 \in call_with_optional_safety("repair", menu) :
                      PartDone(ChunkRepair(r2), r1.calls \o r2.calls)
              ELSE PartDone(p1, r1.calls)

\* lines 254-268: after the loop
ChunkEnd ==
    /\ pc = "chunk"
    /\ idx > Len(parts)
    /\ IF all_items = <<>>
       THEN /\ outcome' = "stopped"
            /\ shown' = Halted
            /\ UNCHANGED session
       ELSE /\ structured_json' = ResearchPaperExtraction("", "", all_items)
            /\ source_of' = extracted_text
            /\ outcome' = "ok"
            /\ shown' = SearchBlock(db, search_query)
            /\ UNCHANGED extracted_text
    /\ pc' = "idle"
    /\ parts' = <<>>
    /\ idx' = 0
    /\ all_items' = <<>>
    /\ calls' = <<>>
    /\ UNCHANGED <<db, search_query, stages, last_resp, yielded, handler, harness>>

\* lines 273-279: the save button; inserted says whether insert_one returned
Save(inserted) ==
    /\ pc = "idle"
    /\ HasText(extracted_text)
    /\ structured_json # None
    /\ Len(db) < MaxDocs
    /\ db' = IF inserted THEN insert_one(db, model_dump(structured_json)) ELSE db
    /\ shown' = SearchBlock(db', search_query)
    /\ NoHandler("save", IF inserted THEN "ok" ELSE "error")
    /\ UNCHANGED <<session, search_query, pc, loop, harness>>

\* lines 293-334: the search input is set to q
Search(q) ==
    /\ pc = "idle"
    /\ search_query' = q
    /\ shown' = SearchBlock(db, q)
    /\ NoHandler("none", "none")
    /\ UNCHANGED <<session, db, pc, loop, harness>>

StoreQueries == { <<>>, <<"r", "1">> }

\* The whole page, with a few sample answers of the model
Next ==
    \/ \E d \in DocIds : Upload(d)
    \/ ExtractSingle(BasicMenu)
    \/ ChunkBegin
    \/ ChunkStep(BasicMenu)
    \/ ChunkEnd
    \/ \E inserted \in BOOLEAN : Save(inserted)
    \/ \E q \in StoreQueries : Search(q)

Spec == Init /\ [][Next]_vars

\* The single-call handler, with every sample answer of the model
NextSingle ==
    \/ \E d \in DocIds : Upload(d)
    \/ ExtractSingle(FullMenu)

SpecSingle == Init /\ [][NextSingle]_vars

\* The chunked handler
NextChunk ==
    \/ \E d \in DocIds : Upload(d)
    \/ ChunkBegin
    \/ ChunkStep(ChunkMenu)
    \/ ChunkEnd

SpecChunk == Init /\ [][NextChunk]_vars

(***************************************************************************)
(* The search block over a collection that already holds documents.        *)
(***************************************************************************)
SampleRecords ==
    { ResearchPaperExtraction("2023", "G", <<F1, F2>>),
      ResearchPaperExtraction("", "", <<F3>>),
      ResearchPaperExtraction("2022", "H", <<F2>>),
      ResearchPaperExtraction("2021", "K", <<F3, F1>>) }

RECURSIVE InsertAll(_, _)
InsertAll(coll, recs) ==
    IF recs = <<>> THEN coll
    ELSE InsertAll(insert_one(coll, model_dump(Head(recs))), Tail(recs))

SampleStores ==
    { InsertAll(<<>>, recs) : recs \in UNION { [1..n -> SampleRecords] : n \in 0..MaxStored } }

InitSearch ==
    /\ db \in SampleStores
    /\ extracted_text = "None"
    /\ structured_json = None
    /\ search_query = <<>>
    /\ shown = SearchBlock(db, <<>>)
    /\ pc = "idle"
    /\ parts = <<>>
    /\ idx = 0
    /\ all_items = <<>>
    /\ calls = <<>>
    /\ stages = <<>>
    /\ outcome = "none"
    /\ last_resp = NoResp
    /\ yielded = <<>>
    /\ source_of = "None"
    /\ handler = "none"
    /\ f_text = <<>>
    /\ f_out = [done |-> FALSE, text |-> <<>>]

NextSearch == \E q \in Queries : Search(q)

SpecSearch == InitSearch /\ [][NextSearch]_vars

(***************************************************************************)
(* filter_relevant on sample texts.                                        *)
(***************************************************************************)
SampleLines ==
    { Str(<<"si", "jeong", "a">>),
      Str(<<"p", " ", "q">>),
      Str(<<"ju", "ui", "1", "2", "/", "3", "4">>),
      Str(<<"-", "-", "-", "-", "-">>),
      Str(<<"1", ".">>),
      Str(<<"gi", "ta", "\f", "hun", "gye", "b">>),
      Str(<<"3", ".", " ", "gwan", "ryeon", "gyu", "jeong">>),
      <<>> }

SampleTexts ==
    { JoinLines(ls) : ls \in UNION { [1..n -> SampleLines] : n \in 0..MaxLines } }

InitFilter ==
    /\ f_text \in SampleTexts
    /\ f_out = [done |-> FALSE, text |-> <<>>]
    /\ extracted_text = "None"
    /\ structured_json = None
    /\ db = <<>>
    /\ search_query = <<>>
    /\ shown = SearchBlock(<<>>, <<>>)
    /\ pc = "idle"
    /\ parts = <<>>
    /\ idx = 0
    /\ all_items = <<>>
    /\ calls = <<>>
    /\ stages = <<>>
    /\ outcome = "none"
    /\ last_resp = NoResp
    /\ yielded = <<>>
    /\ source_of = "None"
    /\ handler = "none"

\* lines 143, 207: focused = filter_relevant(raw_text)
Clean ==
    /\ ~f_out.done
    /\ f_out' = [done |-> TRUE, text |-> filter_relevant(f_text)]
    /\ UNCHANGED <<f_text, session, db, search_query, shown, pc, loop, calls, stages,
                   outcome, last_resp, yielded, handler>>

NextFilter == Clean

SpecFilter == InitFilter /\ [][NextFilter]_vars

(***************************************************************************)
(* Properties of the single-call handler.                                  *)
(***************************************************************************)
\* The text is one JSON object that has the three fields of the schema, each
\* with a value of the field's type
Conformant(text) ==
    LET s == SelectSeq(text, LAMBDA x : x.t # "ws")
    IN  /\ Len(s) >= 2 /\ s[1].t = "{" /\ s[Len(s)].t = "}"
        /\ \A i \in 2..(Len(s) - 1) : s[i].t = "kv"
        /\ \A k \in {"gamsayeondo", "pigamgigwan", "gamsagyeolgwa"} :
              /\ \E i \in DOMAIN s : s[i].k = k
              /\ \A i \in DOMAIN s : s[i].k = k => s[i].ok

\* The value the text gives to key k
ValueOf(text, k) == text[CHOOSE i \in DOMAIN text : text[i].t = "kv" /\ text[i].k = k]

\* The record a conformant text denotes
RecordIn(text) ==
    [gamsayeondo |-> ValueOf(text, "gamsayeondo").s,
     pigamgigwan |-> ValueOf(text, "pigamgigwan").s,
     gamsagyeolgwa |-> ValueOf(text, "gamsagyeolgwa").r]

WellFormedAnswer ==
    /\ handler = "single"
    /\ last_resp.candidates > 0
    /\ last_resp.finish_reason # BlockedReason
    /\ Conformant(last_resp.text)

RepairCalls == SelectSeq(calls, LAMBDA c : c.prompt = "repair")

\* C1: in the single-call handler, when the answer of the model is not
\* safety-blocked and is well-formed and schema-conformant, the handler succeeds
\* with the direct result (the pre-parsed object or the direct validation of the
\* text: neither the coercion nor the repair stage is attempted), stores that
\* record as the session's structured record, and issues no repair request.
C1_DirectSuccess ==
    WellFormedAnswer =>
        /\ outcome = "ok"
        /\ stages \in {<<"parsed">>, <<"parsed", "validate">>}
        /\ structured_json = RecordIn(last_resp.text)
        /\ RepairCalls = <<>>

C1_Witness ==
    /\ WellFormedAnswer
    /\ ~last_resp.has_parsed
    /\ structured_json = RecordIn(last_resp.text)
    /\ Len(calls) = 3

StageOrder == <<"parsed", "validate", "coerce", "repair">>

IsPrefix(a, b) == Len(a) <= Len(b) /\ \A i \in DOMAIN a : a[i] = b[i]

\* The answer has a text with a {...} span for the coerce stage to extract
HoldsObject(resp) ==
    /\ resp.candidates > 0
    /\ \E i, j \in DOMAIN resp.text : i < j /\ resp.text[i].t = "{" /\ resp.text[j].t = "}"

\* C2: in the single-call handler the fallback stages run in the fixed order,
\* each only after the previous one failed, and whenever the fence-strip/coerce
\* stage does not yield a schema-valid record (the extracted substring is not
\* valid JSON, or it is valid JSON that fails schema validation) the repair
\* request is issued before any terminal failure is reported.
C2_RepairAfterCoerceFails ==
    handler = "single" =>
        /\ IsPrefix(stages, StageOrder)
        /\ (Len(stages) >= 3 /\ HoldsObject(last_resp) /\ outcome # "ok")
               => (Len(stages) = 4 /\ RepairCalls # <<>>)

\* The calls one request may issue: the plain call, then the relaxed retry
\* when the plain call was blocked, then one more plain call when the relaxed
\* retry raised
RequestShape(cs) ==
    /\ Len(cs) \in 1..3
    /\ cs[1].safety = "default"
    /\ Len(cs) >= 2 <=> cs[1].answer = "blocked"
    /\ Len(cs) >= 2 => cs[2].safety = "relaxed"
    /\ Len(cs) = 3 <=> (Len(cs) >= 2 /\ cs[2].answer = "raised")
    /\ Len(cs) = 3 => cs[3].safety = "default"

\* C3: in the single-call handler, when the repair stage does not yield a
\* schema-valid record the run ends in a reported failure (st.error, in the
\* outer except or before st.stop()), no exception leaves the handler
\* unhandled, and the calls of the one repair request are the last calls issued.
C3_RepairFailureIsTerminal ==
    (handler = "single" /\ Len(stages) = 4 /\ outcome # "ok") =>
        /\ outcome \in {"error", "stopped"}
        /\ \E n \in 1..Len(calls) :
              /\ \A i \in 1..(n - 1) : calls[i].prompt = "extract"
              /\ \A i \in n..Len(calls) : calls[i].prompt = "repair"
              /\ RequestShape(SubSeq(calls, n, Len(calls)))

C3_Witness ==
    /\ handler = "single"
    /\ Len(stages) = 4
    /\ outcome = "error"
    /\ calls[Len(calls)].prompt = "repair"
    /\ calls[Len(calls)].answer = "answered"

CallsOf(p) == SelectSeq(calls, LAMBDA c : c.prompt = p)

Prompts == {"extract", "repair", "chunk"}

RECURSIVE Flatten(_)
\* The findings of the processed parts, in the order the parts were processed
Flatten(ys) == IF ys = <<>> THEN <<>> ELSE Head(ys).items \o Flatten(Tail(ys))

ChunkRunOver == handler = "chunk" /\ pc = "idle"

\* The windows of the uploaded text
Windows ==
    chunk_text(filter_relevant(extract_text_from_doc(extracted_text)), ChunkSize, ChunkOverlap)

\* C5: in chunked extraction the parts are processed one at a time in window
\* order, and the findings extracted from earlier parts are kept in the
\* resulting structured record even if a later part fails (safety block, API
\* error, or a repair answer that does not validate).
C5_PartialResultsKept ==
    /\ (handler = "chunk" /\ pc = "chunk") => Len(yielded) = idx - 1
    /\ (ChunkRunOver /\ Flatten(yielded) # <<>>) =>
           /\ structured_json # None
           /\ structured_json.gamsagyeolgwa = Flatten(yielded)

\* C6: when a chunked run over N windows ends with every window having
\* yielded findings, the stored record has empty gamsayeondo and pigamgigwan
\* and its finding list is the concatenation of the per-window lists in window
\* order: nothing removed, reordered or de-duplicated.
C6_Concatenation ==
    (/\ ChunkRunOver
     /\ outcome = "ok"
     /\ Len(yielded) = Len(Windows)
     /\ \A i \in DOMAIN yielded : yielded[i].status = "ok" /\ yielded[i].items # <<>>) =>
        structured_json = ResearchPaperExtraction("", "", Flatten(yielded))

C6_Witness ==
    /\ ChunkRunOver
    /\ outcome = "ok"
    /\ Len(Windows) = 2
    /\ Len(yielded) = 2
    /\ yielded[1].items = <<F1, F2>>
    /\ yielded[2].items = <<F2>>
    /\ structured_json.gamsagyeolgwa = <<F1, F2, F2>>

(***************************************************************************)
(* Properties of the search block.                                         *)
(***************************************************************************)
\* The keyword matches the field, case-insensitively (as a substring or as a regex)
FieldMatches(field, q) == ContainsLower(field, q) \/ RegexSearch(field, q)

\* The keyword matches at least one of the finding's four fields, taken one by one
MatchesSomeField(audit, q) ==
    \/ FieldMatches(audit.geonmyeong, q)
    \/ FieldMatches(audit.cheobun, q)
    \/ FieldMatches(audit.gwallyeongyujeong, q)
    \/ FieldMatches(audit.jijeoksahang, q)

\* The findings written under the stored document doc (none when it is not shown)
ShownUnder(doc) ==
    IF \E i \in DOMAIN shown.docs : shown.docs[i].id = doc.id
    THEN shown.docs[CHOOSE i \in DOMAIN shown.docs : shown.docs[i].id = doc.id].audits
    ELSE <<>>

\* C7: for any stored collection and non-empty keyword, the search shows a
\* finding if and only if the keyword matches, case-insensitively, at least one
\* of its four fields taken individually, and shows a document only if at
\* least one of its findings is shown.
C7_PerFieldSearch ==
    (search_query # <<>> /\ shown.status \in {"results", "info"}) =>
        /\ \A i \in DOMAIN db :
              ShownUnder(db[i]) =
                  SelectSeq(db[i].gamsagyeolgwa, LAMBDA a : MatchesSomeField(a, search_query))
        /\ \A i \in DOMAIN shown.docs : shown.docs[i].audits # <<>>

(***************************************************************************)
(* Properties of the session and the store.                                *)
(***************************************************************************)
\* C8: the structured record held in the session is discarded when a new PDF
\* is uploaded: a held record was always extracted from the text that is
\* currently held, so the save button cannot store a record of an earlier PDF.
C8_RecordDiscardedOnUpload == structured_json # None => source_of = extracted_text

\* The content of a stored document, without its _id
Content(doc) ==
    [gamsayeondo |-> doc.gamsayeondo, pigamgigwan |-> doc.pigamgigwan,
     gamsagyeolgwa |-> doc.gamsagyeolgwa]

SaveSucceeded == handler' = "save" /\ outcome' = "ok"

\* C9: the stored collection only grows: every step leaves the stored
\* documents as they are, and a successful save (and nothing else) appends
\* exactly one document, whose content is the held structured record, also
\* when an equal document is already stored.
C9_AppendOnly ==
    [][/\ IsPrefix(db, db')
       /\ SaveSucceeded =>
              /\ structured_json # None
              /\ Len(db') = Len(db) + 1
              /\ Content(db'[Len(db')]) = structured_json
              /\ \A i \in DOMAIN db : db'[Len(db')].id # db[i].id
       /\ ~SaveSucceeded => db' = db]_vars

C9_Witness ==
    /\ Len(db) = 2
    /\ Content(db[1]) = Content(db[2])
    /\ db[1].id # db[2].id
    /\ handler = "save"
    /\ outcome = "ok"

(***************************************************************************)
(* Properties of filter_relevant.                                          *)
(***************************************************************************)
Stripped(ln) == SelectSeq(ln, LAMBDA x : x.c # " ")

\* The drop rules the text cleaner is described with.
\* A border: only border characters, or a run of three or more dashes or double lines
BorderRule(ln) ==
    \/ ln # <<>> /\ \A i \in DOMAIN ln : ln[i].c \in {"-", "=", "|", "+", " "}
    \/ \E i \in 0..(Len(ln) - 3) : \A j \in 1..3 : ln[i + j].c = "-"
    \/ \E i \in 0..(Len(ln) - 3) : \A j \in 1..3 : ln[i + j].c = "="

\* A bare page-number marker ("- 15 -", "15 / 32") of at most 8 characters
PageNumberRule(ln) ==
    /\ Len(Stripped(ln)) <= 8
    /\ \E i \in DOMAIN ln : ln[i].c \in Digits
    /\ \A i \in DOMAIN ln : ln[i].c \in Digits \cup {"-", "/", " "}

\* A table caption ("표 1", "Table 2-1")
CaptionRule(ln) ==
    /\ Len(ln) >= 2
    /\ ln[1].c \in {"pyo", "Table", "table", "TABLE"}

\* A bare enumeration marker ("1.", "2) 가"): digits, "." or ")", and at most
\* one more character
EnumerationRule(ln) ==
    LET s == Stripped(ln)
    IN  \E n \in 1..Len(s) :
           /\ \A i \in 1..n : s[i].c \in Digits
           /\ Len(s) > n
           /\ s[n + 1].c \in {".", ")"}
           /\ Len(s) <= n + 2

DropRule(ln) == BorderRule(ln) \/ PageNumberRule(ln) \/ CaptionRule(ln) \/ EnumerationRule(ln)

Relevant(ln) ==
    /\ \E q \in DOMAIN keys : Contains(ln, keys[q])
    /\ ~MatchesDrop(ln)

====
